---- MODULE Spec2Model ----
(***************************************************************************)
(* The lexer of src/lexer.rs as a state machine.                           *)
(*                                                                         *)
(* The buffer is a sequence of characters; every character has a width in  *)
(* bytes (Width), and the cursor's `pos` is a BYTE offset, as in the       *)
(* source.  Slicing the buffer at a byte offset that is not a character    *)
(* boundary is the panic of `&self.string[pos..]`; it is recorded in the   *)
(* variable `fault`, after which the lexer makes no further step.          *)
(***************************************************************************)
EXTENDS Integers, Sequences, FiniteSets, TLC

VARIABLES
    string,   \* Lexer.string: the input followed by the sentinel space
    state,    \* Lexer.state: [pos, lino, charpos]
    op,       \* the last operation called: "new", "next", "peek", "save", "recall"
    result,   \* what the last next()/peek() returned (NoToken for Option::None)
    pre,      \* Lexer.state as it was when the last operation was called
    prev,     \* [op, result] of the operation before the last one
    fault,    \* TRUE once an operation has panicked
    ck,       \* the caller's checkpoint: the LexerState save() gave (saved), the
              \* results next() produced from it (trace), the number of next()
              \* calls since the last save() or recall() (idx), and whether a
              \* call after a recall() has re-produced a recorded result
    acct      \* the caller's account of the tokens next() has returned: their
              \* number (tokens) and the sum of the bytes the cursor advanced
              \* during the calls that returned them (bytes)

vars == <<string, state, op, result, pre, prev, fault, ck, acct>>

---------------------------------------------------------------------------
(* Bounds of the model *)

MaxLen == 3        \* longest input of Spec
MaxDigits == 6     \* longest input of SpecOct
MaxSaveLen == 3    \* longest input of SpecSave
MaxCommentLen == 4 \* longest input of SpecComment
MaxSymLen == 3     \* longest input of SpecSym
MaxStrLen == 4     \* longest input of SpecStr
MaxReplay == 4     \* most next() calls made after one save() or recall()

---------------------------------------------------------------------------
(* Characters.  A character is a one-character string; MB2 and MB3 stand   *)
(* for characters whose UTF-8 encodings take two and three bytes.          *)

MB2 == "U+00E9"
MB3 == "U+20AC"

\* char::len_utf8
Width(c) == IF c = MB2 THEN 2 ELSE IF c = MB3 THEN 3 ELSE 1

Letters == {"a", "b", "z", "A", "Z", "_"}
OctDigits == {"0", "1", "2", "3", "4", "5", "6", "7"}
Digits == OctDigits \cup {"8", "9"}

OctVal(c) ==
    CASE c = "0" -> 0 [] c = "1" -> 1 [] c = "2" -> 2 [] c = "3" -> 3
      [] c = "4" -> 4 [] c = "5" -> 5 [] c = "6" -> 6 [] c = "7" -> 7

\* the inputs of Spec are drawn from this alphabet
Alphabet == {" ", "\t", ";", "\n", "(", "a", "7", "8", "#", "\"", MB2, MB3}
\* the inputs of SpecOct
OctAlphabet == {"0", "1", "7"}
\* the inputs of SpecComment
CommentAlphabet == {" ", "\t", ";", "\n", "a", "#", MB2}
\* the inputs of SpecSym
SymAlphabet == {"a", "Z", "_", "7", "9", "#", " "}
\* the inputs of SpecStr
StrAlphabet == {"\"", "\\", "\n", "a", "(", MB2}
\* the inputs of SpecSave
SaveAlphabet == {" ", ";", "\n", "a", MB2}

RECURSIVE Texts(_, _)
Texts(alphabet, n) ==
    IF n = 0 THEN {<<>>}
    ELSE LET shorter == Texts(alphabet, n - 1)
         IN  shorter \cup {Append(t, c) : t \in {s \in shorter : Len(s) = n - 1}, c \in alphabet}

---------------------------------------------------------------------------
(* Byte offsets and slices of a String *)

RECURSIVE ByteLen(_)
ByteLen(s) == IF s = <<>> THEN 0 ELSE Width(Head(s)) + ByteLen(Tail(s))

\* the byte offset of the k-th character (1-based); k = Len(s)+1 is the end
ByteOff(s, k) == ByteLen(SubSeq(s, 1, k - 1))

\* is_char_boundary
IsBoundary(s, p) == \E k \in 1..Len(s) + 1 : ByteOff(s, k) = p

\* the index of the character that starts at byte offset p
CharIndex(s, p) == CHOOSE k \in 1..Len(s) + 1 : ByteOff(s, k) = p

---------------------------------------------------------------------------
(* TokenValue, Token, LexerState *)

Val(kind, s, n) == [kind |-> kind, s |-> s, n |-> n]

None == Val("None", <<>>, 0)
Err(msg) == Val("Err", msg, 0)
Symbol(s) == Val("Symbol", s, 0)
U9(n) == Val("U9", <<>>, n)
U12(n) == Val("U12", <<>>, n)
String(s) == Val("String", s, 0)
Punct(kind) == Val(kind, <<>>, 0)

Token(st, value) == [pos |-> st.pos, lino |-> st.lino, charpos |-> st.charpos, value |-> value]

LexerState(pos, lino, charpos) == [pos |-> pos, lino |-> lino, charpos |-> charpos]

\* Option::None as a result
NoToken == Token(LexerState(0, 0, 0), None)

---------------------------------------------------------------------------
(* Lexer::new *)

\* the lexer's buffer: the caller's text with one space pushed at its end
new(text) == Append(text, " ")

InitialState == LexerState(0, 1, 0)

---------------------------------------------------------------------------
(* Lexer::eof *)

\* eof measured against the input without its sentinel
eofUnpadded(s, st) == st.pos >= ByteLen(s) - 1

eof(s, st) == st.pos >= ByteLen(s)

---------------------------------------------------------------------------
(* Lexer::skip_whitespace *)

\* the cursor after one skipped character; newline is TRUE for the newline
\* that ends a comment
Skipped(st, newline) ==
    IF newline THEN LexerState(st.pos + 1, st.lino + 1, 0)
    ELSE LexerState(st.pos + 1, st.lino, st.charpos + 1)

\* the for loop over self.string[pos..].char_indices(), at the k-th character
RECURSIVE SkipLoop(_, _, _, _)
SkipLoop(s, k, st, in_comment) ==
    IF k > Len(s) THEN st
    ELSE IF in_comment /\ s[k] = "\n" THEN SkipLoop(s, k + 1, Skipped(st, TRUE), FALSE)
    ELSE IF s[k] = " " \/ s[k] = "\t" \/ in_comment
         THEN SkipLoop(s, k + 1, Skipped(st, FALSE), in_comment)
    ELSE IF s[k] = ";" THEN SkipLoop(s, k + 1, Skipped(st, FALSE), TRUE)
    ELSE st

\* slicing at self.state.pos panics unless pos is a character boundary
skip_whitespace(s, st) ==
    IF IsBoundary(s, st.pos)
    THEN [state |-> SkipLoop(s, CharIndex(s, st.pos), st, FALSE), fault |-> FALSE]
    ELSE [state |-> st, fault |-> TRUE]

---------------------------------------------------------------------------
(* Lexer::next *)

U9Limit == 512        \* 2u16.pow(9)
U12Limit == 4096      \* 2u16.pow(12)
U16Max == 65535       \* u16::MAX, the range of u16::from_str_radix

\* u16::from_str_radix(digits, 8): the value, or -1 for Err(_)
RECURSIVE ParseOct(_, _)
ParseOct(digits, acc) ==
    IF digits = <<>> THEN acc
    ELSE LET n == acc * 8 + OctVal(Head(digits))
         IN  IF n > U16Max THEN -1 ELSE ParseOct(Tail(digits), n)

from_str_radix(digits) == IF digits = <<>> THEN -1 ELSE ParseOct(digits, 0)

\* Literal with the 9-bit test off by one (n <= 2^9)
LiteralOffByOne(digits) ==
    LET n == from_str_radix(digits)
    IN  IF n >= 0 /\ n <= U9Limit THEN U9(n)
        ELSE IF n >= 0 /\ n < U12Limit THEN U12(n)
        ELSE Err(<<"'">> \o digits \o <<"' is an invalid 12 bit integer">>)

\* the match on `parsed` that settles a literal's width
Literal(digits) ==
    LET n == from_str_radix(digits)
    IN  IF n >= 0 /\ n < U9Limit THEN U9(n)
        ELSE IF n >= 0 /\ n < U12Limit THEN U12(n)
        ELSE Err(<<"'">> \o digits \o <<"' is an invalid 12 bit integer">>)

\* the error of an unknown character
InvalidToken(span) == Err(<<"Invalid token '">> \o span \o <<"'">>)

\* the value a token takes from its first character (TokenValue::None arm)
Classify(c) ==
    CASE c = "(" -> Punct("LParen")
      [] c = ")" -> Punct("RParen")
      [] c = ":" -> Punct("Colon")
      [] c = "," -> Punct("Comma")
      [] c = "\n" -> Punct("Newline")
      [] c = "<" -> Punct("LT")
      [] c = ">" -> Punct("GT")
      [] c = "." -> Punct("Dot")
      [] c \in Letters -> Symbol(<<>>)
      [] c \in OctDigits -> U12(0)
      [] c = "\"" -> String(<<>>)
      [] OTHER -> None

\* IsSymbolChar that takes the octal digits only
IsSymbolCharOctal(c) == c \in Letters \/ c \in OctDigits

\* a character that goes on a symbol
IsSymbolChar(c) == c \in Letters \/ c \in Digits

\* AtLastChar without the "- 1": never true of a character of the buffer
AtLastCharPastEnd(s, st, off) == off = ByteLen(s) - st.pos

\* the string arm's test for the last character of the buffer
AtLastChar(s, st, off) == off = ByteLen(s) - st.pos - 1

\* AfterQuote that stops on the closing quote instead of after it
AfterQuoteShort(st, off) == st.pos + off

\* the cursor when the string arm meets the closing quote at offset off
AfterQuote(st, off) == st.pos + off + 1

\* push that takes a backslash for an escape and drops it
pushUnescaped(str, c) == IF c = "\\" THEN str ELSE Append(str, c)

\* s.push(c.1): the string arm keeps the character as it is
push(str, c) == Append(str, c)

\* AfterSpan that also steps over the character that ended the token
AfterSpanLong(st, off) == st.pos + off + 1

\* the cursor when any other arm breaks at offset off
AfterSpan(st, off) == st.pos + off

\* the for loop over self.string[pos..].char_indices(): the character c.1 is
\* the k-th of the buffer and c.0 = off, the slice was taken at the k0-th
\* character (byte st.pos), and token.value = v
RECURSIVE NextLoop(_, _, _, _, _, _)
NextLoop(s, k0, k, off, st, v) ==
    IF k > Len(s) THEN [state |-> st, value |-> v]
    ELSE
      LET c == s[k]
          span == SubSeq(s, k0, k - 1)      \* &self.string[pos..pos + c.0]
          Break(p, value) == [state |-> [st EXCEPT !.pos = p], value |-> value]
          Continue(st2, v2) ==
              NextLoop(s, k0, k + 1, off + Width(c),
                       IF v2 # Punct("Newline") THEN [st2 EXCEPT !.charpos = @ + 1] ELSE st2,
                       v2)
      IN  CASE v.kind = "None" ->
                 IF off # 0 THEN Break(AfterSpan(st, off), InvalidToken(span))
                 ELSE Continue(IF c = "\n" THEN [st EXCEPT !.charpos = 0, !.lino = @ + 1] ELSE st,
                               Classify(c))
            [] v.kind = "Symbol" ->
                 IF ~IsSymbolChar(c) THEN Break(AfterSpan(st, off), Symbol(v.s \o span))
                 ELSE Continue(st, v)
            [] v.kind = "U12" ->
                 IF c \notin OctDigits THEN Break(AfterSpan(st, off), Literal(span))
                 ELSE Continue(st, v)
            [] v.kind = "String" ->
                 IF c = "\"" THEN Break(AfterQuote(st, off), v)
                 ELSE IF AtLastChar(s, st, off) THEN Break(AfterSpan(st, off), Err(span))
                 ELSE Continue(st, String(push(v.s, c)))
            [] OTHER -> Break(AfterSpan(st, off), v)

\* next(): [state: the cursor afterwards, token: the result, fault: it panicked]
next(s, st) ==
    LET sk == skip_whitespace(s, st)
    IN  IF sk.fault \/ ~IsBoundary(s, sk.state.pos)
        THEN [state |-> sk.state, token |-> NoToken, fault |-> TRUE]
        ELSE LET k0 == CharIndex(s, sk.state.pos)
                 r == NextLoop(s, k0, k0, 0, sk.state, None)
             IN  [state |-> r.state,
                  token |-> IF r.value = None THEN NoToken ELSE Token(sk.state, r.value),
                  fault |-> FALSE]

---------------------------------------------------------------------------
(* Lexer::peek, Lexer::save, Lexer::recall *)

\* Restore that puts back the offset and the line, not the column
RestoreNoColumn(saved, after) == [saved EXCEPT !.charpos = after.charpos]

\* self.state = state: the cursor peek() leaves, given the one it saved
\* and the one next() left
Restore(saved, after) == saved

\* peek that never puts the cursor back
peekNoRestore(s, st) == next(s, st)

peek(s, st) ==
    LET r == next(s, st)
    IN  IF r.fault THEN r ELSE [r EXCEPT !.state = Restore(st, r.state)]

save(st) == st

\* recall that keeps the current line
recallKeepLine(st, saved) == [saved EXCEPT !.lino = st.lino]

\* self.state = state
recall(st, saved) == saved

---------------------------------------------------------------------------
(* The operations as actions *)

NoAccount == [tokens |-> 0, bytes |-> 0]

NoCheckpoint ==
    [has |-> FALSE, saved |-> InitialState, trace |-> <<>>, idx |-> 0, replayed |-> FALSE,
     acct |-> NoAccount]

InitWith(texts) ==
    /\ string \in {new(t) : t \in texts}
    /\ state = InitialState
    /\ op = "new"
    /\ result = NoToken
    /\ pre = InitialState
    /\ prev = [op |-> "none", result |-> NoToken]
    /\ fault = FALSE
    /\ ck = NoCheckpoint
    /\ acct = NoAccount

\* what every call does to the record of calls
Called(name, st, tok, flt) ==
    /\ string' = string
    /\ state' = st
    /\ op' = name
    /\ result' = tok
    /\ pre' = state
    /\ prev' = [op |-> op, result |-> result]
    /\ fault' = flt

\* a call of next(); after a save() its result is recorded, or compared by
\* C10 with the one recorded at the same place
NextCall ==
    /\ ~fault
    /\ ck.has => ck.idx < MaxReplay
    /\ LET r == next(string, state)
       IN  /\ Called("next", r.state, r.token, r.fault)
           /\ ck' = IF ~ck.has THEN ck
                    ELSE IF ck.idx < Len(ck.trace)
                         THEN [ck EXCEPT !.idx = @ + 1, !.replayed = TRUE]
                    ELSE [ck EXCEPT !.idx = @ + 1,
                                    !.trace = Append(@, [token |-> r.token, fault |-> r.fault])]
           /\ acct' = IF r.fault \/ r.token = NoToken THEN acct
                      ELSE [tokens |-> acct.tokens + 1,
                            bytes |-> acct.bytes + (r.state.pos - state.pos)]

PeekCall ==
    /\ ~fault
    /\ LET r == peek(string, state)
       IN  Called("peek", r.state, r.token, r.fault)
    /\ UNCHANGED <<ck, acct>>

SaveCall ==
    /\ ~fault
    /\ Called("save", state, NoToken, FALSE)
    /\ ck' = [has |-> TRUE, saved |-> save(state), trace |-> <<>>, idx |-> 0, replayed |-> FALSE,
              acct |-> acct]
    /\ UNCHANGED acct

RecallCall ==
    /\ ~fault
    /\ ck.has
    /\ Called("recall", recall(state, ck.saved), NoToken, FALSE)
    /\ ck' = [ck EXCEPT !.idx = 0]
    /\ acct' = ck.acct     \* the caller drops the tokens it backtracks over

\* every input up to MaxLen characters, scanned by next() and peek()
Init == InitWith(Texts(Alphabet, MaxLen))
Next == NextCall \/ PeekCall
Spec == Init /\ [][Next]_vars

\* inputs of digits, for the literals
InitOct == InitWith(Texts(OctAlphabet, MaxDigits))
SpecOct == InitOct /\ [][Next]_vars

\* inputs of comments, blanks and what follows them
InitComment == InitWith(Texts(CommentAlphabet, MaxCommentLen))
SpecComment == InitComment /\ [][Next]_vars

\* inputs of letters, digits and what ends a symbol
InitSym == InitWith(Texts(SymAlphabet, MaxSymLen))
SpecSym == InitSym /\ [][Next]_vars

\* inputs of quotes and what goes between them
InitStr == InitWith(Texts(StrAlphabet, MaxStrLen))
SpecStr == InitStr /\ [][Next]_vars

\* a parser that backtracks: save() and recall() as well
InitSave == InitWith(Texts(SaveAlphabet, MaxSaveLen))
NextSave == NextCall \/ PeekCall \/ SaveCall \/ RecallCall
SpecSave == InitSave /\ [][NextSave]_vars

---------------------------------------------------------------------------
(* Notions of the claims, read off the text of the buffer *)

IsToken(tok) == tok.value.kind # "None"

\* the index after the longest run of characters of `set` that starts at k
RECURSIVE RunEnd(_, _, _)
RunEnd(s, k, set) == IF k <= Len(s) /\ s[k] \in set THEN RunEnd(s, k + 1, set) ELSE k

\* the base-8 value of a run of digits, as an unbounded integer
RECURSIVE OctValue(_)
OctValue(digits) ==
    IF digits = <<>> THEN 0
    ELSE OctValue(SubSeq(digits, 1, Len(digits) - 1)) * 8 + OctVal(digits[Len(digits)])

\* every character of s but the double quote
NotQuote(s) == {s[i] : i \in DOMAIN s} \ {"\""}

\* the index after the last character the token covers
TokenEnd(s, tok) ==
    LET k == CharIndex(s, tok.pos)
        kind == tok.value.kind
    IN  CASE kind = "Symbol" -> RunEnd(s, k, Letters \cup Digits)
          [] kind \in {"U9", "U12"} -> RunEnd(s, k, OctDigits)
          [] kind = "String" -> RunEnd(s, k + 1, NotQuote(s)) + 1
          [] kind = "Err" ->
               IF s[k] \in OctDigits THEN RunEnd(s, k, OctDigits)
               ELSE IF s[k] = "\"" THEN Len(s)
               ELSE k + 1
          [] OTHER -> k + 1

---------------------------------------------------------------------------
(* C1 *)

\* C1: a next() called right after a peek() completes and returns what the
\* peek() returned: both report exhaustion, or both return a token of the same
\* variant, payload, byte offset, line and column.
C1_PeekThenNext ==
    (op = "next" /\ prev.op = "peek") => (~fault /\ result = prev.result)

\* a next() after a peek() returned a symbol that whitespace or a comment precedes
C1_Witness ==
    /\ op = "next" /\ prev.op = "peek"
    /\ result.value.kind = "Symbol"
    /\ result.pos > pre.pos

---------------------------------------------------------------------------
(* C2 *)

\* C2: a peek() that returns leaves the cursor (byte offset, line, column) as
\* it was before the call, and a peek() right after a peek() returns the same
\* token with the same position.
C2_PeekFrame ==
    (op = "peek" /\ ~fault) =>
        /\ state = pre
        /\ prev.op = "peek" => result = prev.result

\* two peek() calls in a row saw a token that lies on a later line than the
\* cursor: a comment and its newline were skipped on the way, or the token
\* follows a Newline
C2_Witness ==
    /\ op = "peek" /\ prev.op = "peek" /\ ~fault
    /\ IsToken(result)
    /\ result.lino > state.lino

---------------------------------------------------------------------------
(* C3 *)

\* C3: no next() or peek() call on any input faults: none slices the buffer
\* out of range or inside a character.
C3_NeverFaults == ~fault

---------------------------------------------------------------------------
(* C4 *)

\* C4: a next() that returns a token leaves the byte offset strictly greater
\* than it was before the call, and at or beyond the end of the span the token
\* covers.
C4_Progress ==
    (op = "next" /\ ~fault /\ IsToken(result)) =>
        /\ state.pos > pre.pos
        /\ state.pos >= ByteOff(string, TokenEnd(string, result))

\* a next() returned an Error token after skipping blanks or a comment
C4_Witness ==
    /\ op = "next" /\ ~fault
    /\ result.value.kind = "Err"
    /\ result.pos > pre.pos

---------------------------------------------------------------------------
(* C5 *)

\* the cursor at which the last next() began to scan its token: the cursor
\* skip_whitespace left
ScanStart == skip_whitespace(string, pre).state

\* the last call was a next() that returned or reported exhaustion, and the
\* character it began to scan at is one of `set`
ScannedFrom(set) ==
    /\ op = "next" /\ ~fault
    /\ LET k == CharIndex(string, ScanStart.pos)
       IN  k <= Len(string) /\ string[k] \in set

\* the longest run of octal digits that starts at the byte offset p
DigitRun(s, p) ==
    LET k == CharIndex(s, p)
    IN  SubSeq(s, k, RunEnd(s, k, OctDigits) - 1)

\* C5: when a token starts with a run of octal digits of base-8 value v,
\* next() returns NineBitLiteral(v) if v < 512, TwelveBitLiteral(v) if
\* 512 <= v < 4096, and Error("'<digits>' is an invalid 12 bit integer") if
\* v >= 4096, also when v does not fit in 16 bits; the cursor stops just after
\* the last digit of the run.
C5_LiteralWidth ==
    ScannedFrom(OctDigits) =>
        LET run == DigitRun(string, ScanStart.pos)
            v == OctValue(run)
        IN  /\ v < 512 => result.value = U9(v)
            /\ (512 <= v /\ v < 4096) => result.value = U12(v)
            /\ v >= 4096 =>
                 result.value = Err(<<"'">> \o run \o <<"' is an invalid 12 bit integer">>)
            /\ state.pos = ScanStart.pos + Len(run)

\* next() returned the Error for a run of six digits worth more than 16 bits
C5_Witness ==
    /\ ScannedFrom(OctDigits)
    /\ result.value.kind = "Err"
    /\ Len(DigitRun(string, ScanStart.pos)) = 6
    /\ OctValue(DigitRun(string, ScanStart.pos)) > 65535

---------------------------------------------------------------------------
(* Blanks and comments, read off the text character by character *)

Blanks == {" ", "\t"}

\* the text from its k-th character on is nothing but spaces, tabs and
\* semicolon comments, each comment running to its newline or to the end
RECURSIVE OnlyBlanks(_, _, _)
OnlyBlanks(s, k, in_comment) ==
    IF k > Len(s) THEN TRUE
    ELSE IF in_comment THEN OnlyBlanks(s, k + 1, s[k] # "\n")
    ELSE IF s[k] \in Blanks THEN OnlyBlanks(s, k + 1, FALSE)
    ELSE IF s[k] = ";" THEN OnlyBlanks(s, k + 1, TRUE)
    ELSE FALSE

\* the first character at or after the k-th that is neither a blank nor part
\* of a comment (k = Len(s) + 1 if there is none), with the line and the
\* column it stands at when the k-th character stands at (line, col)
RECURSIVE TextSkip(_, _, _, _, _)
TextSkip(s, k, in_comment, line, col) ==
    IF k > Len(s) THEN [k |-> k, line |-> line, col |-> col]
    ELSE IF in_comment /\ s[k] = "\n" THEN TextSkip(s, k + 1, FALSE, line + 1, 0)
    ELSE IF in_comment \/ s[k] \in Blanks THEN TextSkip(s, k + 1, in_comment, line, col + 1)
    ELSE IF s[k] = ";" THEN TextSkip(s, k + 1, TRUE, line, col + 1)
    ELSE [k |-> k, line |-> line, col |-> col]

\* where the text has its next token when scanned from the cursor `pre`
AfterBlanks == TextSkip(string, CharIndex(string, pre.pos), FALSE, pre.lino, pre.charpos)

\* the last call was a next() that did not fault
Returned == op = "next" /\ ~fault

---------------------------------------------------------------------------
(* C6 *)

\* C6: on an input of nothing but spaces, tabs and semicolon comments, every
\* next() call that returns reports exhaustion: it returns no token, so no
\* Error token either.
C6_BlankInput ==
    (Returned /\ OnlyBlanks(string, 1, FALSE)) => result = NoToken

---------------------------------------------------------------------------
(* C7 *)

\* C7: (a) when next() skips a comment ended by its newline, that newline
\* yields no token: the call returns the first token after the comments and
\* blanks, reported one line further per comment and at the column of the
\* blanks that lead its line, or reports exhaustion if nothing follows; (b) a
\* newline outside comments and strings yields one Newline token reported at
\* the newline's own line and column, and leaves the cursor just after it, on
\* the next line at column 0.
C7_CommentNewline ==
    Returned =>
        LET t == AfterBlanks
        IN  /\ (t.line > pre.lino /\ t.k > Len(string)) => result = NoToken
            /\ (t.line > pre.lino /\ t.k <= Len(string)) =>
                   /\ IsToken(result)
                   /\ result.pos = ByteOff(string, t.k)
                   /\ result.lino = t.line
                   /\ result.charpos = t.col
            /\ (t.k <= Len(string) /\ string[t.k] = "\n") =>
                   /\ result = Token(LexerState(ByteOff(string, t.k), t.line, t.col), Punct("Newline"))
                   /\ state = LexerState(ByteOff(string, t.k) + 1, t.line + 1, 0)

---------------------------------------------------------------------------
(* C8 *)

\* the characters that may start a token
Starters == {"(", ")", ":", ",", "<", ">", ".", "\n", "\""} \cup Letters \cup OctDigits

\* C8: when the first character after the blanks and comments is none of
\* ( ) : , < > . newline, a letter, an underscore, an octal digit or a double
\* quote, next() returns Error("Invalid token '<char>'") naming that one
\* character and leaves the cursor just after that one character.
C8_InvalidToken ==
    Returned =>
        LET t == AfterBlanks
        IN  (t.k <= Len(string) /\ string[t.k] \notin Starters) =>
                /\ result.value = InvalidToken(<<string[t.k]>>)
                /\ state.pos = ByteOff(string, t.k) + Width(string[t.k])

---------------------------------------------------------------------------
(* C9 *)

\* the last next() began to scan at a double quote that no later double quote
\* of the input closes
Unterminated ==
    /\ ScannedFrom({"\""})
    /\ LET k == CharIndex(string, ScanStart.pos)
       IN  \A j \in k + 1..Len(string) : string[j] # "\""

\* the input from the opening quote to its end, without the sentinel
OpenSpan == SubSeq(string, CharIndex(string, ScanStart.pos), Len(string) - 1)

\* C9: when a double quote starts a token and no double quote closes it,
\* next() returns an Error token whose message is the opening quote followed
\* by every remaining character of the input, without the sentinel; the cursor
\* is left on the sentinel, and the next() call after it reports exhaustion.
C9_UnterminatedString ==
    Unterminated =>
        /\ result = Token(ScanStart, Err(OpenSpan))
        /\ state.pos = ByteLen(string) - 1
        /\ next(string, state).token = NoToken
        /\ ~next(string, state).fault

\* the next() after the Error of an unterminated string of two characters or
\* more has reported exhaustion
C9_Witness ==
    /\ op = "next" /\ prev.op = "next" /\ ~fault
    /\ prev.result.value.kind = "Err"
    /\ Len(prev.result.value.s) >= 2
    /\ Head(prev.result.value.s) = "\""
    /\ result = NoToken

---------------------------------------------------------------------------
(* C10 *)

\* C10: recall(s) sets the cursor to exactly the state s that save() gave, and
\* the i-th next() after a save() or a recall() returns what the i-th next()
\* after the save() returned: the same token with the same position, or
\* exhaustion at the same place.
C10_RecallReplays ==
    /\ op = "recall" => state = ck.saved
    /\ (ck.has /\ op = "next" /\ ck.idx >= 1) =>
           ck.trace[ck.idx] = [token |-> result, fault |-> fault]

\* after a recall(), a second next() has re-produced a recorded token that
\* lies on a later line than the checkpoint
C10_Witness ==
    /\ ck.has /\ ck.replayed
    /\ op = "next" /\ ~fault
    /\ ck.idx >= 2
    /\ IsToken(result)
    /\ result.lino > ck.saved.lino

---------------------------------------------------------------------------
(* C11 *)

\* the last call was a next() that reported exhaustion
Exhausted == Returned /\ result = NoToken

\* the length in bytes of the input as the caller gave it, without the sentinel
InputBytes == ByteLen(string) - 1

\* C11 as stated: when next() has reported exhaustion, the bytes consumed by
\* the calls that returned tokens sum to the length of the unpadded input.
C11_SumIsInputLength ==
    Exhausted => acct.bytes = InputBytes

\* C11 as amended: when next() has reported exhaustion, the bytes consumed by
\* the calls that returned tokens sum to at most the length of the unpadded
\* input, and what the input holds from that offset on is only spaces, tabs
\* and comments: the bytes after the last token are counted for no token.
C11_SumUpToTrailingBlanks ==
    Exhausted =>
        /\ acct.bytes <= InputBytes
        /\ IsBoundary(string, acct.bytes)
        /\ OnlyBlanks(string, CharIndex(string, acct.bytes), FALSE)

\* exhaustion was reported after a token that blanks or a comment follow
C11_Witness ==
    /\ Exhausted
    /\ acct.tokens >= 1
    /\ acct.bytes < InputBytes

---------------------------------------------------------------------------
(* C12 *)

\* C12: eof() is true exactly when the byte offset is at or past the length
\* of the padded buffer, which is the input's length plus one; so it is false
\* on a new lexer, for the empty input too, and false after every next() that
\* returned a token, also the last one, when only the sentinel is left.
C12_EofPadded ==
    /\ eof(string, state) <=> state.pos >= InputBytes + 1
    /\ op = "new" => ~eof(string, state)
    /\ (Returned /\ IsToken(result)) => ~eof(string, state)

\* next() returned a token and left the cursor on the sentinel: eof() is false
C12_Witness ==
    /\ Returned /\ IsToken(result)
    /\ state.pos = InputBytes
    /\ ~eof(string, state)

---------------------------------------------------------------------------
(* C13 *)

\* the longest run of letters, digits 0-9 and underscores from the k-th
\* character on
NameRun(s, k) == SubSeq(s, k, RunEnd(s, k, Letters \cup Digits) - 1)

\* C13: when a letter or an underscore starts a token, next() returns
\* Symbol(name), name being the longest run of ASCII letters, digits 0-9 and
\* underscores from that character on; the character that ends the run is not
\* in the name and is not consumed: the cursor is left on it.
C13_SymbolRun ==
    ScannedFrom(Letters) =>
        LET k == CharIndex(string, ScanStart.pos)
            name == NameRun(string, k)
        IN  /\ result = Token(ScanStart, Symbol(name))
            /\ state.pos = ByteOff(string, k + Len(name))
            /\ string[k + Len(name)] \notin Letters \cup Digits

\* next() returned a symbol that holds a digit that is not octal, and left the
\* cursor on a character of the input other than a blank
C13_Witness ==
    /\ ScannedFrom(Letters)
    /\ result.value.kind = "Symbol"
    /\ \E i \in DOMAIN result.value.s : result.value.s[i] = "9"
    /\ string[CharIndex(string, state.pos)] = "#"

---------------------------------------------------------------------------
(* C14 *)

\* a double quote starts the token and a later double quote closes it
Terminated ==
    /\ ScannedFrom({"\""})
    /\ LET k == CharIndex(string, ScanStart.pos)
       IN  \E j \in k + 1..Len(string) : string[j] = "\""

\* the index of the first double quote after the opening one
ClosingQuote == RunEnd(string, CharIndex(string, ScanStart.pos) + 1, NotQuote(string))

\* C14: when a double quote starts a token and a later double quote closes
\* it, next() returns StringLiteral(contents), contents being every character
\* between the opening quote and the first double quote after it, backslashes
\* and line feeds included as they are; the cursor is left just after the
\* closing quote.
C14_StringContents ==
    Terminated =>
        LET k == CharIndex(string, ScanStart.pos)
            j == ClosingQuote
        IN  /\ result = Token(ScanStart, String(SubSeq(string, k + 1, j - 1)))
            /\ state.pos = ByteOff(string, j + 1)

\* next() returned a string literal that is one backslash: the quote after the
\* backslash closed it, and the cursor is on the quote that follows
C14_Witness ==
    /\ Terminated
    /\ result.value = String(<<"\\">>)
    /\ string[CharIndex(string, state.pos)] = "\""

---------------------------------------------------------------------------
(* C15 *)

\* the number of characters the token covers
Consumed(s, tok) == TokenEnd(s, tok) - CharIndex(s, tok.pos)

\* C15: after a next() that returned a token other than Newline the column
\* of the cursor is the column the token reports plus the number of
\* characters the token consumed, both quotes of a string literal counted;
\* after a Newline token the column is 0.
C15_ColumnAdvance ==
    (Returned /\ IsToken(result)) =>
        IF result.value = Punct("Newline") THEN state.charpos = 0
        ELSE state.charpos = result.charpos + Consumed(string, result)

---------------------------------------------------------------------------
(* C16 *)

\* C16: a token that next() returns reports the byte offset, line and column
\* of the cursor as whitespace skipping left it; the offset is that of the
\* token's first character, which is never a space, a tab or a semicolon.
C16_TokenStart ==
    (Returned /\ IsToken(result)) =>
        /\ result.pos = ScanStart.pos
        /\ result.lino = ScanStart.lino
        /\ result.charpos = ScanStart.charpos
        /\ IsBoundary(string, result.pos)
        /\ string[CharIndex(string, result.pos)] \notin Blanks \cup {";"}

---------------------------------------------------------------------------
(* C17 *)

\* C17: on an input of n bytes the next() calls made on a fresh lexer return
\* at most n tokens before they report exhaustion, and every next() call
\* returns, having moved the cursor over no more than what was left of the
\* padded buffer.
C17_BoundedCalls ==
    /\ acct.tokens <= InputBytes
    /\ op = "next" =>
           /\ ~fault
           /\ pre.pos <= state.pos
           /\ state.pos <= ByteLen(string)

---------------------------------------------------------------------------
(* C18 *)

\* the number of line feeds among the first k characters of s
RECURSIVE Newlines(_, _)
Newlines(s, k) ==
    IF k = 0 THEN 0
    ELSE Newlines(s, k - 1) + (IF s[k] = "\n" THEN 1 ELSE 0)

\* C18: the line a returned token reports is 1 plus the number of line feeds
\* of the input before the token's byte offset, those inside earlier string
\* literals included.
C18_LineOfToken ==
    (Returned /\ IsToken(result)) =>
        /\ IsBoundary(string, result.pos)
        /\ result.lino = 1 + Newlines(string, CharIndex(string, result.pos) - 1)

---------------------------------------------------------------------------
(* C19 *)

\* C19: under next(), peek(), save() and recall(), a next() reports
\* exhaustion exactly when eof() is true right after it; and a next() called
\* when eof() is true reports exhaustion and leaves the cursor as it was.
C19_ExhaustedIffEof ==
    /\ Returned => (result = NoToken <=> eof(string, state))
    /\ (op = "next" /\ eof(string, pre)) =>
           (~fault /\ result = NoToken /\ state = pre)

====
